---- MODULE Spec2Model ----
(***************************************************************************)
(* Model of the NASA OPERA dock widget (nasa_opera/dialogs/opera_dock.py): *)
(* the multi-CRS virtual mosaic builder OperaDockWidget._display_mosaic,   *)
(* the widget handlers that can run while it yields to the event loop, and *)
(* the band matcher at its head.                                           *)
(*                                                                         *)
(* Everything runs on the one UI thread.  An action is the code a handler  *)
(* executes between two returns to the event loop; _display_mosaic returns *)
(* to the event loop at each QApplication.processEvents(), so it is cut    *)
(* into one action per stretch between two such calls.                     *)
(*                                                                         *)
(* Three specifications:                                                   *)
(*   Spec            the widget and its handlers, with every invocation of *)
(*                   _display_mosaic followed through its stages and exits *)
(*                   (what the files hold is left open);                   *)
(*   SpecMosaic      the try block of one invocation of _display_mosaic    *)
(*                   with its data: scan, CRS groups, VRTs, layers, extent;*)
(*   SpecBandMatcher the band matcher on a set of filenames.               *)
(***************************************************************************)
EXTENDS Integers, Sequences, FiniteSets, TLC

\* ------------------------------------------------------------------ bounds
\* Largest number of granules a search returns.
MaxGranules == 2
\* Largest number of _display_mosaic invocations on the call stack at once
\* (each one after the first entered from a processEvents() of the one below).
MaxDepth == 2
\* Largest number of tokens a band-matcher filename is assembled from.
MaxTokens == 4
\* Largest number of comma-separated parts of the bounding-box text.
MaxParts == 5
\* Largest number of warnings _search shows in a session.
MaxWarnings == 1
\* Largest number of DownloadRasterWorkers running at once.
MaxDownloads == 2
\* Largest depth of the override-cursor stack at which Display Single still
\* pushes a cursor.
MaxCursor == 3
\* Largest number of footprint layers made in a session.
MaxLayers == 3
\* Largest number of lines of ~/.netrc.
MaxLines == 3
\* Largest number of successful saves of the settings.
MaxSaves == 2

\* ------------------------------------------------------------- sequences
Last(s) == s[Len(s)]

RECURSIVE Flatten(_)
Flatten(ss) == IF ss = <<>> THEN <<>> ELSE Head(ss) \o Flatten(Tail(ss))

SeqRange(s) == {s[i] : i \in 1..Len(s)}

\* The elements of a set of integers in ascending order.
RECURSIVE Ascending(_)
Ascending(S) ==
    IF S = {} THEN <<>>
    ELSE LET m == CHOOSE x \in S : \A y \in S : x <= y
         IN  <<m>> \o Ascending(S \ {m})

\* The sequences that hold every element of S once.
Orderings(S) ==
    {s \in [1..Cardinality(S) -> S] : \A i, j \in DOMAIN s : i # j => s[i] # s[j]}

Min2(a, b) == IF a <= b THEN a ELSE b
Max2(a, b) == IF a >= b THEN a ELSE b

\* =========================================================== band matcher
\* A filename is a sequence of one-character strings.
Digits == {"1", "5"}
Letters == {"B", "b", "W", "t", "i", "f", "h", "T", "I", "F"}
Alnum == Digits \cup Letters

\* str.lower() on one character.
Lower(c) ==
    CASE c = "B" -> "b"
      [] c = "W" -> "w"
      [] c = "T" -> "t"
      [] c = "I" -> "i"
      [] c = "F" -> "f"
      [] OTHER -> c

DotTif == <<".", "t", "i", "f">>
DotH5 == <<".", "h", "5">>

LowerSeq(s) == [i \in 1..Len(s) |-> Lower(s[i])]

\* s ends with ".tif", compared without regard to case (re.IGNORECASE).
EndsDotTifIgnoreCase(s) ==
    /\ Len(s) >= 4
    /\ LowerSeq(SubSeq(s, Len(s) - 3, Len(s))) = DotTif

\* The pattern r"_(B\d+_[A-Za-z0-9]+)\.tif$" matches s starting at i.
\* j is the last digit of \d+; the word runs from j+2 to the character
\* before ".tif".
BandMatchAt(s, i) ==
    /\ EndsDotTifIgnoreCase(s)
    /\ i >= 1 /\ i + 1 <= Len(s)
    /\ s[i] = "_"
    /\ Lower(s[i + 1]) = "b"
    /\ \E j \in (i + 2)..(Len(s) - 6) :
          /\ \A d \in (i + 2)..j : s[d] \in Digits
          /\ s[j + 1] = "_"
          /\ j + 2 <= Len(s) - 4
          /\ \A w \in (j + 2)..(Len(s) - 4) : s[w] \in Alnum

BandMatches(s) == \E i \in 1..Len(s) : BandMatchAt(s, i)

\* A variant of the capture: group(0), the whole match, in place of group(1).
BandGroup0(s) ==
    LET i == CHOOSE k \in 1..Len(s) :
                 /\ BandMatchAt(s, k)
                 /\ \A m \in 1..(k - 1) : ~BandMatchAt(s, m)
    IN  SubSeq(s, i, Len(s))

\* re.search returns the leftmost match; group(1) runs from the B to the
\* character before ".tif".
BandGroup1(s) ==
    LET i == CHOOSE k \in 1..Len(s) :
                 /\ BandMatchAt(s, k)
                 /\ \A m \in 1..(k - 1) : ~BandMatchAt(s, m)
    IN  SubSeq(s, i + 1, Len(s) - 4)

\* str.replace(".tif", ""): every occurrence, left to right, case-sensitive.
RECURSIVE ReplaceDotTif(_)
ReplaceDotTif(s) ==
    IF Len(s) < 4 THEN s
    ELSE IF SubSeq(s, 1, 4) = DotTif
         THEN ReplaceDotTif(SubSeq(s, 5, Len(s)))
         ELSE <<Head(s)>> \o ReplaceDotTif(Tail(s))

\* str.split("_"): always at least one part, possibly empty ones.
RECURSIVE SplitUnderscore(_, _)
SplitUnderscore(s, cur) ==
    IF s = <<>> THEN <<cur>>
    ELSE IF Head(s) = "_"
         THEN <<cur>> \o SplitUnderscore(Tail(s), <<>>)
         ELSE SplitUnderscore(Tail(s), Append(cur, Head(s)))

\* "_".join(parts)
RECURSIVE JoinUnderscore(_)
JoinUnderscore(parts) ==
    IF parts = <<>> THEN <<>>
    ELSE IF Len(parts) = 1 THEN parts[1]
         ELSE parts[1] \o <<"_">> \o JoinUnderscore(Tail(parts))

\* The else branch: the last two underscore-separated parts of the name
\* with ".tif" replaced away.
BandFallback(s) ==
    LET parts == SplitUnderscore(ReplaceDotTif(s), <<>>)
    IN  IF Len(parts) >= 2
        THEN JoinUnderscore(SubSeq(parts, Len(parts) - 1, Len(parts)))
        ELSE IF parts # <<>> THEN Last(parts) ELSE s

\* layer_band as _display_mosaic derives it from layer_combo.currentText().
BandMatcher(s) == IF BandMatches(s) THEN BandGroup1(s) ELSE BandFallback(s)

\* The pieces file names are put together from, at most MaxTokens of them.
Tokens ==
    { <<"_", "B", "1", "_">>, <<"_", "b", "1", "_">>, <<"_">>, <<"W">>,
      <<"1">>, DotTif, <<".", "T", "I", "F">>, DotH5 }

TokenSeqs == UNION {[1..n -> Tokens] : n \in 0..MaxTokens}

\* s.endswith(t)
EndsWith(s, t) ==
    Len(s) >= Len(t) /\ SubSeq(s, Len(s) - Len(t) + 1, Len(s)) = t

\* The layer dropdown takes the file names of the data links that end in
\* ".tif" or ".h5".
ComboAccepts(s) == EndsWith(s, DotTif) \/ EndsWith(s, DotH5)

\* The texts the layer dropdown can hold when the band matcher runs.
Filenames == {s \in {Flatten(ts) : ts \in TokenSeqs} : ComboAccepts(s)}


\* ============================================================ CRS, extents
\* What osr reports for the dataset of a remote file: the authority code
\* (0: GetAuthorityCode returns None), the first 100 characters of the WKT,
\* the "UTM zone ..." part of the name ("": the name has none), the first 30
\* characters of the name, and where the CRS lies relative to the canvas.
CrsCatalogue ==
    { [epsg |-> 32612, wkt100 |-> "PROJCS12", zone |-> "12N",
       name30 |-> "WGS 84 / UTM zone 12N", shift |-> 0],
      [epsg |-> 32613, wkt100 |-> "PROJCS13", zone |-> "13N",
       name30 |-> "WGS 84 / UTM zone 13N", shift |-> 100],
      [epsg |-> 0, wkt100 |-> "PROJCSX", zone |-> "12N",
       name30 |-> "Custom / UTM zone 12N", shift |-> 200],
      [epsg |-> 32612, wkt100 |-> "PROJCRS12", zone |-> "12N",
       name30 |-> "WGS 84 / UTM zone 12N", shift |-> 0] }

\* The CRS of the map canvas (destinationCrs()).
CanvasCrs ==
    CHOOSE c \in CrsCatalogue : c.epsg = 32612 /\ c.wkt100 = "PROJCS12"

\* QgsCoordinateReferenceSystem ==: the same authority code, or, with none,
\* the same definition.
SameCrs(a, b) ==
    /\ a.epsg = b.epsg
    /\ a.epsg = 0 => a.wkt100 = b.wkt100

\* A variant of crs_key that always takes proj[:100].
CrsKeyWktOnly(c) == <<"WKT", c.wkt100>>

\* crs_key: "EPSG:<code>" when the authority code resolves, else proj[:100].
CrsKey(c) == IF c.epsg # 0 THEN <<"EPSG", c.epsg>> ELSE <<"WKT", c.wkt100>>

\* crs_short: the "UTM zone" match when there is one, else crs_name[:30].
CrsShort(c) == IF c.zone # "" THEN <<"UTM zone", c.zone>> ELSE <<"name", c.name30>>

\* The remote file of granule item i, as get_vsicurl_path names it, with the
\* CRS the file carries.
Path(i, c) == [id |-> i, crs |-> c]

\* vrt_path: opera_mosaic_<crs_name with ' ' and '/' replaced by '_'>.vrt in
\* the temp directory: a function of the short name alone.
VrtPath(name) == <<"opera_mosaic", name, ".vrt">>

NoExtent == [none |-> TRUE]

Rect(x1, x2, y1, y2) == [xmin |-> x1, xmax |-> x2, ymin |-> y1, ymax |-> y2]

\* The extent of one remote file in its own CRS.
FileExtent(p) == Rect(10 * p.id, 10 * p.id + 5, p.id, p.id + 2)

\* QgsRectangle.combineExtentWith: the bounding rectangle of both.
CombineExtentWith(a, b) ==
    Rect(Min2(a.xmin, b.xmin), Max2(a.xmax, b.xmax),
         Min2(a.ymin, b.ymin), Max2(a.ymax, b.ymax))

\* layer.extent() of a VRT: the bounding rectangle of its sources.
RECURSIVE VrtExtent(_)
VrtExtent(paths) ==
    IF Len(paths) = 1 THEN FileExtent(paths[1])
    ELSE CombineExtentWith(FileExtent(paths[1]), VrtExtent(Tail(paths)))

\* QgsCoordinateTransform.transformBoundingBox between two CRSs.
TransformBoundingBox(r, from, to) ==
    Rect(r.xmin + from.shift - to.shift, r.xmax + from.shift - to.shift,
         r.ymin, r.ymax)

\* The extent a layer contributes: transformed when its CRS differs from the
\* canvas CRS (both are valid here).
LayerExtentOnCanvas(paths) ==
    LET layerCrs == paths[1].crs
    IN  IF ~SameCrs(layerCrs, CanvasCrs)
        THEN TransformBoundingBox(VrtExtent(paths), layerCrs, CanvasCrs)
        ELSE VrtExtent(paths)

\* combined_extent after one more valid layer.
MergeExtent(combined, ext) ==
    IF combined = NoExtent THEN ext ELSE CombineExtentWith(combined, ext)

\* QgsRectangle.scale(1.05) about the centre, in units of 1/40.
Scale105(r) ==
    Rect(41 * r.xmin - r.xmax, 41 * r.xmax - r.xmin,
         41 * r.ymin - r.ymax, 41 * r.ymax - r.ymin)

\* ================================================================== state
VARIABLES
    \* the widget
    nResults,       \* len(self._results)
    gdf,            \* self._gdf is not None
    listCount,      \* granule_list.count(); item i stores index i (1-based)
    listEnabled,    \* granule_list.isEnabled()
    selected,       \* the selected items of granule_list
    combo,          \* layer_combo: "empty", "placeholder" or "file"
    singleBtn,      \* display_single_btn.isEnabled()
    footBtn,        \* display_footprints_btn.isEnabled()
    mosaicBtn,      \* display_mosaic_btn.isEnabled()
    searchBtn,      \* search_btn.isEnabled()
    progress,       \* progress_bar.isVisible()
    cursor,         \* depth of the application's override-cursor stack
    searching,      \* the SearchWorkers running
    status,         \* status_label, by the kind of message it shows
    output,         \* output_text: "empty" or "text"
    downloads,      \* the DownloadRasterWorkers running
    stack,          \* the stage of each _display_mosaic invocation on the
                    \* call stack, innermost last
    \* one invocation of _display_mosaic, from its try block on
    pc,             \* "setup", "scan", "build", "done"
    items,          \* selected_items, as stored indices
    itemsAlive,     \* FALSE once granule_list.clear() deleted those items
    idx,            \* position of the scan loop in items
    files_by_crs,   \* insertion-ordered: <<[key, name, paths]>>
    not_found,
    access_failed,
    scanLog,        \* history: what the scan met for each item
    ds,             \* the local "ds": 0 (None), or the item whose dataset
                    \* it still refers to
    setupOk,        \* history: "none", "ok", "failed"
    gi,             \* position of the build loop in files_by_crs
    layers_created, \* the layers added to the project by this invocation
    combined_extent,
    buildLog,       \* history: what the build loop met for each group
    vrtFiles,       \* the temp directory: vrt path -> source paths
    vrtBefore,      \* history: the temp directory when the invocation began
    canvasSets,     \* history: number of setExtent calls
    canvasExtent,   \* the canvas extent, in units of 1/40
    outcome,        \* "running", "success", "failed"
    err,            \* the message of the exception caught at line 1317
    \* the band matcher
    filename, layer_band

VARIABLES
    \* one run() of a worker thread
    worker,           \* "none", "search" (SearchWorker), "download"
    wpc,              \* where run() is
    emitted,          \* history: the signals emitted, in order
    results_n,        \* len(results) of earthaccess.search_data
    downloaded_files, \* what earthaccess.download returned
    wi                \* position of the loop in progress

VARIABLES
    \* the link loop of one granule in the scan of _display_mosaic
    data_links,       \* granule.data_links(), each link by what it names
    lpc,              \* "idle", "loop" or "done"
    link_i,           \* position of "for link in data_links"
    opens,            \* history: the links gdal.Open was called on
    link_paths,       \* history: the links whose path was put in a group
    found             \* the local "found"

VARIABLES
    \* the search form
    bbox,             \* the text of bbox_input, as its comma-separated parts
    search_bbox,      \* <<>>, or <<n>> once a SearchWorker was made with a
                      \* bbox of n values (0: None)
    warnings,         \* history: the warnings _search showed
    \* the footprints
    project,          \* the footprint layers in the project, by id
    footprint_layer,  \* self._footprint_layer: 0 (None) or a layer id
    nLayers,          \* the footprint layers made so far
    \* the settings dock
    netrc,            \* the lines of ~/.netrc
    netrcBefore,      \* history: the file before the first save
    netrcOnce,        \* history: the file after the first save
    saves             \* history: the saves that succeeded

widgetVars ==
    <<gdf, listCount, listEnabled, selected, combo, singleBtn, footBtn,
      mosaicBtn, searchBtn, progress, cursor, searching, status, output,
      downloads, stack>>

searchVars == <<bbox, search_bbox, warnings>>

footprintVars == <<project, footprint_layer, nLayers>>

netrcVars == <<netrc, netrcBefore, netrcOnce, saves>>

sessionVars == <<searchVars, footprintVars, netrcVars>>

scanVars ==
    <<items, idx, files_by_crs, not_found, access_failed, scanLog, ds,
      setupOk>>

buildVars ==
    <<gi, layers_created, combined_extent, buildLog, vrtFiles, vrtBefore,
      canvasSets, canvasExtent>>

mosaicVars == <<pc, itemsAlive, scanVars, buildVars, outcome, err>>

bandVars == <<filename, layer_band>>

workerVars == <<worker, wpc, emitted, results_n, downloaded_files, wi>>

linkVars == <<data_links, lpc, link_i, opens, link_paths, found>>

vars ==
    <<nResults, widgetVars, mosaicVars, bandVars, workerVars, linkVars,
      sessionVars>>

\* The locals of _display_mosaic before its try block has run.
MosaicIdle ==
    /\ pc = "setup" /\ itemsAlive = TRUE
    /\ items = <<>> /\ idx = 1 /\ files_by_crs = <<>>
    /\ not_found = <<>> /\ access_failed = <<>> /\ scanLog = <<>>
    /\ ds = 0
    /\ setupOk = "none"
    /\ gi = 1 /\ layers_created = <<>> /\ combined_extent = NoExtent
    /\ buildLog = <<>>
    /\ vrtFiles = <<>> /\ vrtBefore = <<>>
    /\ canvasSets = 0 /\ canvasExtent = NoExtent
    /\ outcome = "running" /\ err = "none"

BandIdle == filename = <<>> /\ layer_band = <<"unset">>

\* No link loop is running.
LinkIdle ==
    /\ data_links = <<>> /\ lpc = "idle" /\ link_i = 1
    /\ opens = <<>> /\ link_paths = <<>> /\ found = FALSE

\* The search form as _setup_ui leaves it; no SearchWorker was made.
SearchIdle == bbox = <<>> /\ search_bbox = <<>> /\ warnings = 0

\* self._footprint_layer = None (line 403); no footprint layer was made.
FootprintIdle == project = {} /\ footprint_layer = 0 /\ nLayers = 0

\* The settings dock has saved nothing; ~/.netrc does not exist.
NetrcIdle ==
    /\ netrc = <<>> /\ netrcBefore = <<>> /\ netrcOnce = <<>> /\ saves = 0

SessionIdle == SearchIdle /\ FootprintIdle /\ NetrcIdle

\* No worker thread is running.
WorkerIdle ==
    /\ worker = "none" /\ wpc = "idle" /\ emitted = <<>>
    /\ results_n = 0 /\ downloaded_files = <<>> /\ wi = 1

\* The state right after OperaDockWidget.__init__ and _setup_ui.
Init ==
    /\ nResults = 0 /\ gdf = FALSE
    /\ listCount = 0 /\ listEnabled = FALSE /\ selected = {}
    /\ combo = "empty"
    /\ singleBtn = FALSE /\ footBtn = FALSE /\ mosaicBtn = FALSE
    /\ searchBtn = TRUE /\ progress = FALSE /\ cursor = 0
    /\ searching = 0
    /\ status = "Ready to search" /\ output = "empty"
    /\ downloads = 0
    /\ stack = <<>>
    /\ MosaicIdle /\ BandIdle /\ WorkerIdle /\ LinkIdle /\ SessionIdle

\* ========================================================= widget handlers
Items == 1..listCount

\* The layer dropdown after _on_granule_selection_changed filled it from a
\* granule: its .tif/.h5 links, or the placeholder when it has none.
ComboFills == {"file", "placeholder"}

\* _on_granule_selection_changed, run with selection S: the values the three
\* widgets it sets take.
SelectionHandler(S, newCombo) ==
    /\ singleBtn' = (Cardinality(S) = 1)
    /\ mosaicBtn' = (Cardinality(S) >= 1)
    /\ combo' = IF S = {} THEN "empty"
                ELSE IF Ascending(S)[1] > nResults THEN combo
                ELSE newCombo

\* The user changes the selection of the granule list (clicks, Select All,
\* Deselect All): itemSelectionChanged runs the handler.
SelectionChanged ==
    /\ listEnabled
    /\ \E S \in SUBSET Items, c \in ComboFills :
          /\ S # selected
          /\ selected' = S
          /\ SelectionHandler(S, c)
    /\ UNCHANGED <<nResults, gdf, listCount, listEnabled, footBtn, searchBtn,
                   progress, cursor, searching, status, output, downloads,
                   stack>>
    /\ UNCHANGED <<mosaicVars, bandVars, workerVars, linkVars, sessionVars>>

\* The text of bbox_input, split at its commas: each part is one float()
\* accepts or one it rejects.  The stripped empty text is <<>>.
BboxParts == {"num", "word"}

BboxTexts == UNION {[1..n -> BboxParts] : n \in 0..MaxParts}

\* [float(x.strip()) for x in bbox_text.split(",")] raises ValueError unless
\* every part is a number.
ParsesAsFloats(t) == \A i \in 1..Len(t) : t[i] = "num"

\* A variant of the count test that lets a longer list through.
HasFourOrMoreParts(parts) == Len(parts) >= 4

\* len(parts) == 4
HasFourParts(parts) == Len(parts) = 4

\* The bbox _search hands to the worker, as the number of its values: 0 for
\* None, Rejected when _search returns after its warning.
Rejected == 0 - 1

SearchBbox(t) ==
    IF t = <<>> THEN 0
    ELSE IF ~ParsesAsFloats(t) THEN Rejected
    ELSE IF HasFourParts(t) THEN Len(t)
    ELSE Rejected

\* The text _use_map_extent writes (line 656): four numbers.
MapExtentText == <<"num", "num", "num", "num">>

\* The user types one more part into bbox_input or deletes the last one,
\* presses "Clear" (line 473) or "Use Map Extent".
EditBbox ==
    /\ \E t \in BboxTexts :
          /\ t # bbox
          /\ \/ Len(t) = Len(bbox) + 1 /\ SubSeq(t, 1, Len(bbox)) = bbox
             \/ Len(bbox) = Len(t) + 1 /\ SubSeq(bbox, 1, Len(t)) = t
             \/ t = <<>>
             \/ t = MapExtentText
          /\ bbox' = t
    /\ UNCHANGED <<nResults, widgetVars, search_bbox, warnings>>
    /\ UNCHANGED <<mosaicVars, bandVars, workerVars, linkVars, footprintVars,
                   netrcVars>>

\* _search: a bounding-box text that does not parse returns after a warning;
\* otherwise the worker is started.
Search ==
    /\ searchBtn
    /\ IF SearchBbox(bbox) = Rejected
       THEN /\ warnings < MaxWarnings
            /\ warnings' = warnings + 1
            /\ UNCHANGED <<searchBtn, progress, searching, status, output,
                           search_bbox>>
       ELSE /\ searchBtn' = FALSE
            /\ progress' = TRUE
            /\ status' = "Searching..."
            /\ output' = "empty"
            /\ searching' = searching + 1
            /\ search_bbox' = <<SearchBbox(bbox)>>
            /\ UNCHANGED warnings
    /\ UNCHANGED <<nResults, gdf, listCount, listEnabled, selected, combo,
                   singleBtn, footBtn, mosaicBtn, cursor, downloads, stack,
                   bbox>>
    /\ UNCHANGED <<mosaicVars, bandVars, workerVars, linkVars, footprintVars,
                   netrcVars>>

\* _on_search_finished(results, gdf) with n results.  With n = 0 it returns
\* before touching the list.  Otherwise granule_list.clear() deletes the old
\* items (the selection handler runs with nothing selected), the new items
\* are added and item 0 is selected (the handler runs again).
OnSearchFinished ==
    /\ searching > 0
    /\ \E n \in 0..MaxGranules, g \in BOOLEAN, c \in ComboFills :
          /\ progress' = FALSE
          /\ searchBtn' = TRUE
          /\ searching' = searching - 1
          /\ nResults' = n
          /\ gdf' = g
          /\ output' = "text"
          /\ IF n = 0
             THEN /\ status' = "No results found"
                  /\ UNCHANGED <<listCount, listEnabled, selected, combo,
                                 singleBtn, mosaicBtn, footBtn>>
             ELSE /\ status' = "Found granules"
                  /\ listCount' = n
                  /\ listEnabled' = TRUE
                  /\ selected' = {1}
                  /\ singleBtn' = TRUE
                  /\ mosaicBtn' = TRUE
                  /\ combo' = c
                  /\ footBtn' = g
    /\ UNCHANGED <<cursor, downloads, stack, mosaicVars, bandVars, workerVars,
                   linkVars, sessionVars>>

\* _on_search_error
OnSearchError ==
    /\ searching > 0
    /\ progress' = FALSE
    /\ searchBtn' = TRUE
    /\ searching' = searching - 1
    /\ status' = "Search failed"
    /\ output' = "text"
    /\ UNCHANGED <<nResults, gdf, listCount, listEnabled, selected, combo,
                   singleBtn, footBtn, mosaicBtn, cursor, downloads, stack>>
    /\ UNCHANGED <<mosaicVars, bandVars, workerVars, linkVars, sessionVars>>

\* _reset
Reset ==
    /\ bbox' = <<>>
    /\ listCount' = 0
    /\ listEnabled' = FALSE
    /\ selected' = {}
    /\ combo' = "empty"
    /\ singleBtn' = FALSE
    /\ footBtn' = FALSE
    /\ mosaicBtn' = FALSE
    /\ output' = "empty"
    /\ status' = "Ready to search"
    /\ nResults' = 0
    /\ gdf' = FALSE
    /\ UNCHANGED <<searchBtn, progress, cursor, searching, downloads, stack,
                   search_bbox, warnings>>
    /\ UNCHANGED <<mosaicVars, bandVars, workerVars, linkVars, footprintVars,
                   netrcVars>>

\* _set_busy_state(True)
SetBusyTrue ==
    /\ cursor' = cursor + 1
    /\ singleBtn' = FALSE
    /\ footBtn' = FALSE
    /\ mosaicBtn' = FALSE

\* _set_busy_state(False)
SetBusyFalse ==
    /\ cursor' = IF cursor > 0 THEN cursor - 1 ELSE 0
    /\ singleBtn' = (Cardinality(selected) = 1)
    /\ mosaicBtn' = (Cardinality(selected) >= 1)
    /\ footBtn' = gdf

\* The guards at the head of _display_mosaic: each returns after a warning.
MosaicGuardsPass == selected # {} /\ combo = "file"

\* finally: _set_busy_state(False); progress_bar.setVisible(False)
Finally == SetBusyFalse /\ progress' = FALSE

\* Display Mosaic is clicked, from the event loop or from a processEvents()
\* of an invocation in progress.  Past the guards the handler derives the
\* band, enters the busy state and yields at line 1083.
DisplayMosaic ==
    /\ mosaicBtn
    /\ Len(stack) < MaxDepth
    /\ IF MosaicGuardsPass
       THEN /\ SetBusyTrue
            /\ progress' = TRUE
            /\ status' = "Creating mosaic"
            /\ output' = "text"
            /\ stack' = Append(stack, "setup")
            /\ UNCHANGED <<nResults, gdf, listCount, listEnabled, selected,
                           combo, searchBtn, searching, downloads>>
       ELSE UNCHANGED <<nResults, widgetVars>>
    /\ UNCHANGED <<mosaicVars, bandVars, workerVars, linkVars, sessionVars>>

\* The stages of the try block, each reached at a processEvents(): credential
\* setup, the scan loop, the build loop.
MosaicStages == {"setup", "scan", "build"}

NextStage(st) == IF st = "setup" THEN "scan" ELSE "build"

\* The innermost invocation moves on: setup succeeded, or the scan grouped at
\* least one file.
MosaicAdvances ==
    /\ stack # <<>>
    /\ Last(stack) \in {"setup", "scan"}
    /\ stack' = [stack EXCEPT ![Len(stack)] = NextStage(@)]
    /\ UNCHANGED <<nResults, gdf, listCount, listEnabled, selected, combo,
                   singleBtn, footBtn, mosaicBtn, searchBtn, progress, cursor,
                   searching, status, output, downloads>>
    /\ UNCHANGED <<mosaicVars, bandVars, workerVars, linkVars, sessionVars>>

\* A variant of the failure path with no finally block: the report is made
\* and the busy state is left as it is.
MosaicFailsNoCleanup ==
    /\ stack # <<>>
    /\ Last(stack) \in MosaicStages
    /\ status' = "Mosaic failed"
    /\ output' = "text"
    /\ stack' = SubSeq(stack, 1, Len(stack) - 1)
    /\ UNCHANGED <<nResults, gdf, listCount, listEnabled, selected, combo,
                   singleBtn, footBtn, mosaicBtn, searchBtn, progress, cursor,
                   searching, downloads>>
    /\ UNCHANGED <<mosaicVars, bandVars, workerVars, linkVars, sessionVars>>

\* The innermost invocation raises inside its try block, at any stage: setup
\* failed (line 1094), a call raised, nothing was grouped (line 1208), no
\* layer was created (line 1303).  The except block reports "Mosaic failed",
\* then the finally block runs.
MosaicFails ==
    /\ stack # <<>>
    /\ Last(stack) \in MosaicStages
    /\ status' = "Mosaic failed"
    /\ output' = "text"
    /\ Finally
    /\ stack' = SubSeq(stack, 1, Len(stack) - 1)
    /\ UNCHANGED <<nResults, gdf, listCount, listEnabled, selected, combo,
                   searchBtn, searching, downloads>>
    /\ UNCHANGED <<mosaicVars, bandVars, workerVars, linkVars, sessionVars>>

\* The innermost invocation leaves the build loop with a layer created: the
\* success report, then the finally block.
MosaicSucceeds ==
    /\ stack # <<>>
    /\ Last(stack) = "build"
    /\ status' = "Created mosaic layer(s)"
    /\ output' = "text"
    /\ Finally
    /\ stack' = SubSeq(stack, 1, Len(stack) - 1)
    /\ UNCHANGED <<nResults, gdf, listCount, listEnabled, selected, combo,
                   searchBtn, searching, downloads>>
    /\ UNCHANGED <<mosaicVars, bandVars, workerVars, linkVars, sessionVars>>

Next ==
    \/ Search
    \/ OnSearchFinished
    \/ OnSearchError
    \/ Reset
    \/ SelectionChanged
    \/ DisplayMosaic
    \/ MosaicAdvances
    \/ MosaicFails
    \/ MosaicSucceeds

Spec == Init /\ [][Next]_vars

\* ------------------------------------------------------------ the search
\* The search form alone: the bounding-box text is edited between searches.
NextSearch ==
    \/ EditBbox
    \/ Search
    \/ OnSearchFinished
    \/ OnSearchError
    \/ Reset

SpecSearch == Init /\ [][NextSearch]_vars

\* -------------------------------------------------------- Display Single
\* The guards at the head of _display_single: an empty dropdown returns, the
\* placeholder (no url), no selected item and a stored index outside
\* self._results each return after a warning.
SingleGuardsPass ==
    /\ combo = "file"
    /\ selected # {}
    /\ Ascending(selected)[1] <= nResults

\* From line 863 on: the busy state is entered, the button disabled and the
\* DownloadRasterWorker started.
StartDownload ==
    /\ downloads < MaxDownloads
    /\ cursor < MaxCursor
    /\ SetBusyTrue
    /\ status' = "Downloading"
    /\ output' = "text"
    /\ progress' = TRUE
    /\ downloads' = downloads + 1

\* Display Single is clicked, from the event loop or from a processEvents()
\* of a handler in progress.  A .tif url enters the busy state and yields at
\* line 848 before the streaming attempt; any other url goes to the download.
DisplaySingle ==
    /\ singleBtn
    /\ Len(stack) < MaxDepth
    /\ IF SingleGuardsPass
       THEN \E is_tif \in BOOLEAN :
               IF is_tif
               THEN /\ cursor < MaxCursor
                    /\ SetBusyTrue
                    /\ status' = "Loading COG"
                    /\ output' = "text"
                    /\ progress' = TRUE
                    /\ stack' = Append(stack, "cog")
                    /\ UNCHANGED <<nResults, gdf, listCount, listEnabled,
                                   selected, combo, searchBtn, searching,
                                   downloads>>
               ELSE /\ StartDownload
                    /\ UNCHANGED <<nResults, gdf, listCount, listEnabled,
                                   selected, combo, searchBtn, searching,
                                   stack>>
       ELSE UNCHANGED <<nResults, widgetVars>>
    /\ UNCHANGED <<mosaicVars, bandVars, workerVars, linkVars, sessionVars>>

\* _try_load_cog returned True: the layer was added, the busy state is left
\* and the handler returns.
CogSucceeds ==
    /\ stack # <<>>
    /\ Last(stack) = "cog"
    /\ status' = "Loaded (streaming)"
    /\ output' = "text"
    /\ SetBusyFalse
    /\ progress' = FALSE
    /\ stack' = SubSeq(stack, 1, Len(stack) - 1)
    /\ UNCHANGED <<nResults, gdf, listCount, listEnabled, selected, combo,
                   searchBtn, searching, downloads>>
    /\ UNCHANGED <<mosaicVars, bandVars, workerVars, linkVars, sessionVars>>

\* _try_load_cog returned False (credential setup failed, the layer was not
\* valid, or a call raised): the handler falls through to the download.
CogFallsBack ==
    /\ stack # <<>>
    /\ Last(stack) = "cog"
    /\ StartDownload
    /\ stack' = SubSeq(stack, 1, Len(stack) - 1)
    /\ UNCHANGED <<nResults, gdf, listCount, listEnabled, selected, combo,
                   searchBtn, searching>>
    /\ UNCHANGED <<mosaicVars, bandVars, workerVars, linkVars, sessionVars>>

\* _on_download_finished: the worker's finished signal is handled; the layer
\* made from the file is valid or not.
OnDownloadFinished ==
    /\ downloads > 0
    /\ progress' = FALSE
    /\ SetBusyFalse
    /\ \E valid \in BOOLEAN :
          status' = IF valid THEN "Loaded" ELSE "Failed to load"
    /\ output' = "text"
    /\ downloads' = downloads - 1
    /\ UNCHANGED <<nResults, gdf, listCount, listEnabled, selected, combo,
                   searchBtn, searching, stack>>
    /\ UNCHANGED <<mosaicVars, bandVars, workerVars, linkVars, sessionVars>>

\* _on_download_error: the worker's error signal is handled.
OnDownloadError ==
    /\ downloads > 0
    /\ progress' = FALSE
    /\ SetBusyFalse
    /\ status' = "Download failed"
    /\ output' = "text"
    /\ downloads' = downloads - 1
    /\ UNCHANGED <<nResults, gdf, listCount, listEnabled, selected, combo,
                   searchBtn, searching, stack>>
    /\ UNCHANGED <<mosaicVars, bandVars, workerVars, linkVars, sessionVars>>

\* The display buttons together: the handlers of Spec and those of Display
\* Single, interleaved as the event loop delivers them.
NextSingle ==
    \/ Next
    \/ DisplaySingle
    \/ CogSucceeds
    \/ CogFallsBack
    \/ OnDownloadFinished
    \/ OnDownloadError

SpecSingle == Init /\ [][NextSingle]_vars

\* -------------------------------------------------------- Show Footprints
\* removeMapLayer of the previous footprint layer, when the project still
\* holds it; here in a variant that removes nothing.
KeepPrevious(p, fl) == p

\* Lines 1337-1340: the previous footprint layer is removed from the project
\* when its id is among the project's layers.
RemovePrevious(p, fl) == IF fl \in p THEN p \ {fl} ELSE p

\* self._footprint_layer is a wrapper whose layer the project has deleted.
FootprintLayerDeleted == footprint_layer # 0 /\ footprint_layer \notin project

\* What follows the removal: to_file raises, the layer made from the file is
\* not valid, or the layer is added.
FootprintResults == {"ok", "to_file raises", "invalid"}

\* _display_footprints.  Calling id() on the wrapper of a deleted layer
\* either raises, which the except block reports, or returns the old id.
DisplayFootprints ==
    /\ footBtn
    /\ IF ~gdf
       THEN UNCHANGED <<status, output, footprintVars>>
       ELSE \E r \in FootprintResults, raises \in BOOLEAN :
               IF FootprintLayerDeleted /\ raises
               THEN /\ status' = "Failed to display footprints"
                    /\ output' = "text"
                    /\ UNCHANGED footprintVars
               ELSE IF r = "ok"
               THEN /\ nLayers < MaxLayers
                    /\ nLayers' = nLayers + 1
                    /\ project' =
                          RemovePrevious(project, footprint_layer)
                             \cup {nLayers + 1}
                    /\ footprint_layer' = nLayers + 1
                    /\ status' = "Displayed footprints"
                    /\ output' = "text"
               ELSE /\ project' = RemovePrevious(project, footprint_layer)
                    /\ status' = "Failed to display footprints"
                    /\ output' = "text"
                    /\ UNCHANGED <<footprint_layer, nLayers>>
    /\ UNCHANGED <<nResults, gdf, listCount, listEnabled, selected, combo,
                   singleBtn, footBtn, mosaicBtn, searchBtn, progress, cursor,
                   searching, downloads, stack>>
    /\ UNCHANGED <<mosaicVars, bandVars, workerVars, linkVars, searchVars,
                   netrcVars>>

\* The user removes a footprint layer in the layer panel: the project
\* deletes the layer.
LayerRemoved ==
    /\ \E l \in project : project' = project \ {l}
    /\ UNCHANGED <<nResults, widgetVars, footprint_layer, nLayers>>
    /\ UNCHANGED <<mosaicVars, bandVars, workerVars, linkVars, searchVars,
                   netrcVars>>

NextFootprints ==
    \/ Search
    \/ OnSearchFinished
    \/ OnSearchError
    \/ Reset
    \/ SelectionChanged
    \/ DisplayFootprints
    \/ LayerRemoved

SpecFootprints == Init /\ [][NextFootprints]_vars

\* ================================================ _display_mosaic: the data
\* One invocation from its try block (line 1085) on.  The widget is in the
\* busy state the head of the handler left it in, the granule list holds
\* listCount items of which the non-empty set S is selected, and
\* self._results holds either those listCount granules or, after a search
\* that returned nothing, none.  dir is the temp directory.
InitMosaicIn(dir) ==
    /\ listCount \in 1..MaxGranules
    /\ selected \in (SUBSET (1..listCount)) \ {{}}
    /\ nResults \in {0, listCount}
    /\ gdf = TRUE
    /\ listEnabled = TRUE /\ combo = "file"
    /\ singleBtn = FALSE /\ footBtn = FALSE /\ mosaicBtn = FALSE
    /\ searchBtn = TRUE /\ searching = 0
    /\ progress = TRUE /\ cursor = 1
    /\ status = "Creating mosaic" /\ output = "text"
    /\ downloads = 0
    /\ SessionIdle
    /\ stack = <<"setup">>
    /\ pc = "setup" /\ itemsAlive = TRUE
    /\ items \in Orderings(selected)
    /\ idx = 1 /\ files_by_crs = <<>>
    /\ not_found = <<>> /\ access_failed = <<>> /\ scanLog = <<>>
    /\ ds = 0
    /\ setupOk = "none"
    /\ gi = 1 /\ layers_created = <<>> /\ combined_extent = NoExtent
    /\ buildLog = <<>>
    /\ vrtFiles = dir /\ vrtBefore = dir
    /\ canvasSets = 0 /\ canvasExtent = NoExtent
    /\ outcome = "running" /\ err = "none"
    /\ BandIdle /\ WorkerIdle /\ LinkIdle

\* The first invocation of the session: no VRT file in the temp directory.
InitMosaic == InitMosaicIn(<<>>)

\* An exception raised inside the try block is caught at line 1317: the
\* invocation ends "Mosaic failed" with the exception's message.
MosaicRaise(e) ==
    /\ outcome' = "failed"
    /\ err' = e
    /\ pc' = "done"

\* A handler that replaces self._results runs inside a processEvents() of
\* the scan: _on_search_finished with n results (n > 0 also clears the list,
\* deleting the items the scan holds), or _reset (no results, list cleared).
\* Neither _results nor the items are read after the scan loop.
ResultsReplaced ==
    /\ pc \in {"setup", "scan"}
    /\ \E n \in 0..MaxGranules, cleared \in BOOLEAN :
          /\ n > 0 => cleared
          /\ nResults' = n
          /\ itemsAlive' = (itemsAlive /\ ~cleared)
          /\ <<nResults', itemsAlive'>> # <<nResults, itemsAlive>>
    /\ UNCHANGED <<widgetVars, pc, scanVars, buildVars, outcome, err, bandVars, workerVars, linkVars,
                   sessionVars>>

\* setup_gdal_for_earthdata() returns (True, None) or (False, message).
SetupResults == {"ok", "failed"}

\* A variant of the gate that lets a failed setup through.
SetupGateIgnored(r) == r \in SetupResults

\* The gate after setup_gdal_for_earthdata(): "if not success: raise".
SetupGate(r) == r = "ok"

\* From line 1085 to the head of the scan loop: credential setup, and on
\* failure the exception of line 1094.
MosaicSetup ==
    /\ pc = "setup"
    /\ \E r \in SetupResults :
          /\ setupOk' = r
          /\ IF SetupGate(r)
             THEN /\ pc' = "scan"
                  /\ UNCHANGED <<outcome, err>>
             ELSE MosaicRaise("Failed to setup cloud access")
    /\ UNCHANGED <<nResults, widgetVars, itemsAlive, items, idx, files_by_crs,
                   not_found, access_failed, scanLog, ds, buildVars, bandVars,
                   workerVars, linkVars,
                   sessionVars>>

\* item.text(), os.path.basename(link) and f[:30] + "..." as texts.
GranuleId(i) == [of |-> "native-id", item |-> i, dots |-> FALSE]
Basename(i) == [of |-> "basename", item |-> i, dots |-> FALSE]
Truncated30(f) == [of |-> f.of, item |-> f.item, dots |-> TRUE]

\* granule_id in [f[:30] + "..." for f in access_failed]
InFailedLabels(i, failed) ==
    GranuleId(i) \in {Truncated30(failed[k]) : k \in 1..Len(failed)}

\* A variant of the grouping that puts the newest file first in its list.
AddToGroupPrepend(fbc, key, name, path) ==
    IF \E k \in 1..Len(fbc) : fbc[k].key = key
    THEN [k \in 1..Len(fbc) |->
             IF fbc[k].key = key
             THEN [fbc[k] EXCEPT !.paths = <<path>> \o @]
             ELSE fbc[k]]
    ELSE Append(fbc, [key |-> key, name |-> name, paths |-> <<path>>])

\* A variant of the grouping that starts the key's list afresh on every file
\* (files_by_crs[crs_key] = {...} outside the "not in" test).
AddToGroupReset(fbc, key, name, path) ==
    IF \E k \in 1..Len(fbc) : fbc[k].key = key
    THEN [k \in 1..Len(fbc) |->
             IF fbc[k].key = key
             THEN [fbc[k] EXCEPT !.paths = <<path>>]
             ELSE fbc[k]]
    ELSE Append(fbc, [key |-> key, name |-> name, paths |-> <<path>>])

\* files_by_crs after one more file: a new group at the end when the key is
\* new, and the path appended to the key's group.
AddToGroup(fbc, key, name, path) ==
    IF \E k \in 1..Len(fbc) : fbc[k].key = key
    THEN [k \in 1..Len(fbc) |->
             IF fbc[k].key = key
             THEN [fbc[k] EXCEPT !.paths = Append(@, path)]
             ELSE fbc[k]]
    ELSE Append(fbc, [key |-> key, name |-> name, paths |-> <<path>>])

\* A variant of the failure record with no except clause around the open:
\* only a dataset that is None is recorded.
AccessFailedNoExcept(failed, r, it) ==
    IF r = "opennone" THEN Append(failed, Basename(it)) ELSE failed

\* access_failed after the open of item it ended as r: the else branch of
\* "if ds is not None" and the except clause both append the basename.
AccessFailedAfter(failed, r, it) ==
    IF r \in {"opennone", "openraise", "metaraise"}
    THEN Append(failed, Basename(it))
    ELSE failed

\* The local "ds" after the visit of item it ended as r: gdal.Open assigns
\* it (None when the open gives nothing) unless the call raises; "ds = None"
\* at line 1171 is reached only when the CRS was read and the file grouped.
DsAfter(d, r, it) ==
    CASE r \in {"ok", "opennone"} -> 0
      [] r = "metaraise" -> it
      [] OTHER -> d

\* What the scan can meet for a granule with a valid index: no link matches
\* the band; gdal.Open returns None; gdal.Open raises; the dataset opens and
\* reading its CRS raises; the dataset opens and its CRS is read.
ScanResults == {"notfound", "opennone", "openraise", "metaraise", "ok"}

\* One iteration of the scan loop, lines 1106 to 1195.  The yield of line
\* 1120 lies between reading the item and matching its links; a handler run
\* there acts on later iterations exactly as one run at line 1195 does.
ScanGranule ==
    /\ pc = "scan"
    /\ idx <= Len(items)
    /\ IF ~itemsAlive
       THEN \* item.data() on a deleted QListWidgetItem raises RuntimeError
            /\ MosaicRaise("wrapped C/C++ object has been deleted")
            /\ UNCHANGED <<idx, files_by_crs, not_found, access_failed,
                           scanLog, ds>>
       ELSE /\ idx' = idx + 1
            /\ UNCHANGED <<pc, outcome, err>>
            /\ IF items[idx] > nResults
               THEN \* granule_index >= len(self._results): continue
                    /\ scanLog' = Append(scanLog,
                           [item |-> items[idx], res |-> "skipped",
                            crs |-> CanvasCrs, held |-> ds])
                    /\ UNCHANGED <<files_by_crs, not_found, access_failed,
                                   ds>>
               ELSE \E r \in ScanResults, c \in CrsCatalogue :
                    LET it == items[idx]
                        failed == AccessFailedAfter(access_failed, r, it)
                    IN  /\ r # "ok" => c = CanvasCrs
                        /\ scanLog' = Append(scanLog,
                               [item |-> it, res |-> r, crs |-> c,
                                held |-> ds])
                        /\ ds' = DsAfter(ds, r, it)
                        /\ access_failed' = failed
                        /\ files_by_crs' =
                               IF r = "ok"
                               THEN AddToGroup(files_by_crs, CrsKey(c),
                                               CrsShort(c), Path(it, c))
                               ELSE files_by_crs
                        /\ not_found' =
                               IF r # "ok" /\ ~InFailedLabels(it, failed)
                               THEN Append(not_found, it)
                               ELSE not_found
    /\ UNCHANGED <<nResults, widgetVars, itemsAlive, items, setupOk,
                   buildVars, bandVars, workerVars, linkVars,
                   sessionVars>>

\* total_files
RECURSIVE TotalFiles(_)
TotalFiles(fbc) ==
    IF fbc = <<>> THEN 0 ELSE Len(fbc[1].paths) + TotalFiles(Tail(fbc))

\* A variant of the test of line 1207 that is off by one.
NoAccessibleFilesOffByOne(fbc) == TotalFiles(fbc) <= 1

\* total_files == 0
NoAccessibleFiles(fbc) == TotalFiles(fbc) = 0

\* After the scan loop, lines 1197 to 1216: the fatal error when nothing was
\* grouped, else on to the build loop.
ScanEnd ==
    /\ pc = "scan"
    /\ idx = Len(items) + 1
    /\ IF NoAccessibleFiles(files_by_crs)
       THEN MosaicRaise("No accessible files found for selected granules")
       ELSE /\ pc' = "build"
            /\ UNCHANGED <<outcome, err>>
    /\ UNCHANGED <<nResults, widgetVars, itemsAlive, scanVars, buildVars,
                   bandVars, workerVars, linkVars,
                   sessionVars>>

\* What one iteration of the build loop can meet: gdal.BuildVRT returns
\* None; gdal.BuildVRT raises (gdal.UseExceptions() is on since line 1097);
\* the VRT is written and the layer is not valid; the layer is valid; the
\* layer is valid and transformBoundingBox raises.
BuildResults == {"vrtnone", "vrtraise", "invalid", "valid", "transformraise"}

\* The results that leave the loop by an exception no code inside it catches.
BuildRaises == {"vrtraise", "transformraise"}

\* A variant of the write that never overwrites: a file of a fresh name for
\* every build (tempfile.mkstemp in place of the fixed name).
WriteVrtFresh(files, vp, paths) ==
    [q \in (DOMAIN files) \cup {<<vp, Cardinality(DOMAIN files)>>} |->
        IF q \in DOMAIN files THEN files[q] ELSE paths]

\* The temp directory after gdal.BuildVRT wrote vrt_path from vsi_paths.
WriteVrt(files, vp, paths) ==
    [q \in (DOMAIN files) \cup {vp} |-> IF q = vp THEN paths ELSE files[q]]

\* A variant of the layer name that counts one scene whatever the group.
MosaicLayerOneScene(key, name, paths, ext) ==
    [key |-> key, name |-> name, scenes |-> 1,
     vrt |-> VrtPath(name), extent |-> ext]

\* The layer QgsRasterLayer(vrt_path, layer_name) makes, with the key of the
\* group it was built for and the extent it adds on the canvas.
MosaicLayer(key, name, paths, ext) ==
    [key |-> key, name |-> name, scenes |-> Len(paths),
     vrt |-> VrtPath(name), extent |-> ext]

\* One iteration of the build loop, lines 1223 to 1300, for group gi.
BuildGroup ==
    /\ pc = "build"
    /\ gi <= Len(files_by_crs)
    /\ \E r \in BuildResults :
          LET g == files_by_crs[gi]
              vp == VrtPath(g.name)
              ext == LayerExtentOnCanvas(g.paths)
          IN  /\ r = "transformraise" => ~SameCrs(g.paths[1].crs, CanvasCrs)
              /\ buildLog' = Append(buildLog, [key |-> g.key, res |-> r])
              /\ vrtFiles' = IF r \in {"vrtnone", "vrtraise"}
                             THEN vrtFiles
                             ELSE WriteVrt(vrtFiles, vp, g.paths)
              /\ layers_created' =
                     IF r = "valid"
                     THEN Append(layers_created,
                                 MosaicLayer(g.key, g.name, g.paths, ext))
                     ELSE IF r = "transformraise"
                     THEN Append(layers_created,
                                 MosaicLayer(g.key, g.name, g.paths, NoExtent))
                     ELSE layers_created
              /\ combined_extent' = IF r = "valid"
                                    THEN MergeExtent(combined_extent, ext)
                                    ELSE combined_extent
              /\ IF r \in BuildRaises
                 THEN /\ MosaicRaise(r)
                      /\ UNCHANGED gi
                 ELSE /\ gi' = gi + 1
                      /\ UNCHANGED <<pc, outcome, err>>
    /\ UNCHANGED <<nResults, widgetVars, itemsAlive, scanVars, vrtBefore,
                   canvasSets, canvasExtent, bandVars, workerVars, linkVars,
                   sessionVars>>

\* A variant of the zoom test that never zooms.
ZoomsNever(combined) == combined # combined

\* "if combined_extent:" at line 1306: a rectangle was recorded.
ZoomsToExtent(combined) == combined # NoExtent

\* After the build loop, lines 1302 to 1315: the fatal error when no layer
\* was created, else the zoom and the success report.
MosaicFinish ==
    /\ pc = "build"
    /\ gi = Len(files_by_crs) + 1
    /\ IF layers_created = <<>>
       THEN /\ MosaicRaise("Failed to create any mosaic layers")
            /\ UNCHANGED <<canvasSets, canvasExtent>>
       ELSE /\ IF ZoomsToExtent(combined_extent)
               THEN /\ canvasExtent' = Scale105(combined_extent)
                    /\ canvasSets' = canvasSets + 1
               ELSE UNCHANGED <<canvasSets, canvasExtent>>
            /\ outcome' = "success"
            /\ pc' = "done"
            /\ UNCHANGED err
    /\ UNCHANGED <<nResults, widgetVars, itemsAlive, scanVars, gi,
                   layers_created, combined_extent, buildLog, vrtFiles,
                   vrtBefore, bandVars, workerVars, linkVars,
                   sessionVars>>

NextMosaic ==
    \/ ResultsReplaced
    \/ MosaicSetup
    \/ ScanGranule
    \/ ScanEnd
    \/ BuildGroup
    \/ MosaicFinish

SpecMosaic == InitMosaic /\ [][NextMosaic]_vars

\* ------------------------------------------------- a later invocation
\* The temp directory as earlier invocations can have left it: for any of
\* the short names, the VRT file an earlier build wrote under it.
\* Item 0 stands for a file of the earlier selection.
EarlierSources == <<Path(0, CanvasCrs)>>

PriorVrtDirs ==
    LET names == {CrsShort(c) : c \in CrsCatalogue}
    IN  UNION {[{VrtPath(n) : n \in S} -> {EarlierSources}] :
                  S \in SUBSET names}

InitRerun == \E dir \in PriorVrtDirs : InitMosaicIn(dir)

SpecRerun == InitRerun /\ [][NextMosaic]_vars

\* ======================================================= the band matcher
\* The band matcher is a function of the dropdown's text alone: it is run on
\* every filename of Filenames.
InitBandMatcher ==
    /\ nResults = 0 /\ gdf = FALSE
    /\ listCount = 0 /\ listEnabled = FALSE /\ selected = {}
    /\ combo = "file"
    /\ singleBtn = FALSE /\ footBtn = FALSE /\ mosaicBtn = FALSE
    /\ searchBtn = TRUE /\ progress = FALSE /\ cursor = 0
    /\ searching = 0
    /\ status = "Ready to search" /\ output = "empty"
    /\ downloads = 0
    /\ stack = <<>>
    /\ MosaicIdle /\ WorkerIdle /\ LinkIdle /\ SessionIdle
    /\ filename \in Filenames
    /\ layer_band = <<"unset">>

RunBandMatcher ==
    /\ layer_band = <<"unset">>
    /\ layer_band' = BandMatcher(filename)
    /\ UNCHANGED <<filename, nResults, widgetVars, mosaicVars, workerVars, linkVars,
                   sessionVars>>

SpecBandMatcher == InitBandMatcher /\ [][RunBandMatcher]_vars

\* ====================================================== the worker threads
\* One run() of SearchWorker or of DownloadRasterWorker, from QThread.start()
\* to its return.  The signals are queued to the dock's slots in the GUI
\* thread, so emit() returns at once and no slot runs inside run().
MaxFiles == 3

nonWorkerVars ==
    <<nResults, widgetVars, mosaicVars, bandVars, linkVars, sessionVars>>

Signal(s, a) == [sig |-> s, arg |-> a]

\* The widget as _search leaves it when it starts a SearchWorker, and as
\* _display_single leaves it when it starts a DownloadRasterWorker.
InitWorkers ==
    /\ worker \in {"search", "download"}
    /\ wpc = "start" /\ emitted = <<>>
    /\ results_n = 0 /\ downloaded_files = <<>> /\ wi = 1
    /\ gdf = FALSE /\ listEnabled = (worker = "download")
    /\ listCount = (IF worker = "download" THEN 1 ELSE 0)
    /\ nResults = listCount
    /\ selected = (IF worker = "download" THEN {1} ELSE {})
    /\ combo = (IF worker = "download" THEN "file" ELSE "empty")
    /\ singleBtn = FALSE /\ footBtn = FALSE /\ mosaicBtn = FALSE
    /\ searchBtn = (worker = "download")
    /\ searching = (IF worker = "search" THEN 1 ELSE 0)
    /\ downloads = (IF worker = "download" THEN 1 ELSE 0)
    /\ output = (IF worker = "download" THEN "text" ELSE "empty")
    /\ bbox = <<>> /\ warnings = 0
    /\ search_bbox = (IF worker = "search" THEN <<0>> ELSE <<>>)
    /\ FootprintIdle /\ NetrcIdle
    /\ progress = TRUE
    /\ cursor = (IF worker = "download" THEN 1 ELSE 0)
    /\ status = (IF worker = "download" THEN "Downloading" ELSE "Searching...")
    /\ stack = <<>>
    /\ MosaicIdle /\ BandIdle /\ LinkIdle

\* A variant of the outer except clause that swallows the exception.
WorkerRaiseSilent(log) ==
    /\ emitted' = log
    /\ wpc' = "done"

\* "except Exception as e: self.error.emit(str(e))" closing run(); log is
\* what run() had emitted when the exception was raised.
WorkerRaise(log) ==
    /\ emitted' = Append(log, Signal("error", "exception"))
    /\ wpc' = "done"

\* run() emits its completion signal and returns.
WorkerFinish(log, a) ==
    /\ emitted' = Append(log, Signal("finished", a))
    /\ wpc' = "done"

\* SearchWorker.run, lines 132 to 137: the first progress signal, the import
\* of earthaccess and the login.
SearchLogin ==
    /\ worker = "search" /\ wpc = "start"
    /\ LET log == Append(emitted, Signal("progress", "Authenticating"))
       IN  \E raises \in BOOLEAN :
               IF raises THEN WorkerRaise(log)
               ELSE emitted' = log /\ wpc' = "search"
    /\ UNCHANGED <<results_n, downloaded_files, wi, worker, nonWorkerVars>>

\* Lines 139 to 159: the second progress signal and earthaccess.search_data.
SearchData ==
    /\ worker = "search" /\ wpc = "search"
    /\ LET log == Append(emitted, Signal("progress", "Searching"))
       IN  \E raises \in BOOLEAN, n \in 0..MaxGranules :
               IF raises
               THEN n = 0 /\ WorkerRaise(log) /\ UNCHANGED results_n
               ELSE emitted' = log /\ wpc' = "results" /\ results_n' = n
    /\ UNCHANGED <<downloaded_files, wi, worker, nonWorkerVars>>

\* Lines 161 to 164: no result.
SearchNoResults ==
    /\ worker = "search" /\ wpc = "results" /\ results_n = 0
    /\ WorkerFinish(Append(emitted, Signal("progress", "No results found.")),
                    <<0, "no gdf">>)
    /\ UNCHANGED <<results_n, downloaded_files, wi, worker, nonWorkerVars>>

\* The inner except clause, lines 245 to 248: a warning as a progress signal
\* and the results without footprints.
SearchWithoutGdf(log) ==
    WorkerFinish(Append(log, Signal("progress", "Warning")),
                 <<results_n, "no gdf">>)

\* Lines 166 to 172: the progress signal and the imports of the inner try.
SearchFootprints ==
    /\ worker = "search" /\ wpc = "results" /\ results_n > 0
    /\ LET log == Append(emitted, Signal("progress", "Found"))
       IN  \E raises \in BOOLEAN :
               IF raises THEN SearchWithoutGdf(log) /\ UNCHANGED wi
               ELSE emitted' = log /\ wpc' = "records" /\ wi' = 1
    /\ UNCHANGED <<results_n, downloaded_files, worker, nonWorkerVars>>

\* Lines 174 to 238: the record of one granule.
SearchRecord ==
    /\ worker = "search" /\ wpc = "records" /\ wi <= results_n
    /\ \E raises \in BOOLEAN :
           IF raises THEN SearchWithoutGdf(emitted) /\ UNCHANGED wi
           ELSE wi' = wi + 1 /\ UNCHANGED <<emitted, wpc>>
    /\ UNCHANGED <<results_n, downloaded_files, worker, nonWorkerVars>>

\* Lines 240 to 243: the GeoDataFrame and the completion signal.
SearchFrame ==
    /\ worker = "search" /\ wpc = "records" /\ wi = results_n + 1
    /\ \E raises \in BOOLEAN :
           IF raises THEN SearchWithoutGdf(emitted)
           ELSE WorkerFinish(emitted, <<results_n, "gdf">>)
    /\ UNCHANGED <<results_n, downloaded_files, wi, worker, nonWorkerVars>>

\* DownloadRasterWorker.run, lines 271 to 277: the import, the login and the
\* two progress signals.
DownloadLogin ==
    /\ worker = "download" /\ wpc = "start"
    /\ LET log1 == Append(emitted, Signal("progress", "Authenticating"))
           log2 == Append(log1, Signal("progress", "Downloading"))
       IN  \E r \in {"import raises", "login raises", "ok"} :
               CASE r = "import raises" -> WorkerRaise(emitted)
                 [] r = "login raises" -> WorkerRaise(log1)
                 [] OTHER -> emitted' = log2 /\ wpc' = "prepare"
    /\ UNCHANGED <<results_n, downloaded_files, wi, worker, nonWorkerVars>>

\* Lines 279 to 291: the download directory and the cached file.
DownloadPrepare ==
    /\ worker = "download" /\ wpc = "prepare"
    /\ \E r \in {"makedirs raises", "cached", "absent"} :
           CASE r = "makedirs raises" -> WorkerRaise(emitted)
             [] r = "cached" ->
                    WorkerFinish(Append(emitted,
                                        Signal("progress", "Using cached file")),
                                 "local_path")
             [] OTHER -> UNCHANGED emitted /\ wpc' = "download"
    /\ UNCHANGED <<results_n, downloaded_files, wi, worker, nonWorkerVars>>

\* What earthaccess.download can return for one file: a str ending with the
\* file name, a path object ending with it, another ".tif", anything else.
FileKinds == {"str name", "path name", "tif", "other"}

\* Lines 293 to 299 and 322 to 323: earthaccess.download; nothing
\* downloaded is reported as an error.
DownloadFetch ==
    /\ worker = "download" /\ wpc = "download"
    /\ \E raises \in BOOLEAN :
       \E fs \in UNION {[1..n -> FileKinds] : n \in 0..MaxFiles} :
           IF raises
           THEN fs = <<>> /\ WorkerRaise(emitted) /\ UNCHANGED downloaded_files
           ELSE /\ downloaded_files' = fs
                /\ IF fs = <<>>
                   THEN /\ emitted' = Append(emitted, Signal("error",
                                           "No files were downloaded"))
                        /\ wpc' = "done"
                   ELSE UNCHANGED emitted /\ wpc' = "exact"
    /\ wi' = 1
    /\ UNCHANGED <<results_n, worker, nonWorkerVars>>

\* Lines 300 to 306: the loop looking for the file by its name.
DownloadFindExact ==
    /\ worker = "download" /\ wpc = "exact"
    /\ IF wi <= Len(downloaded_files)
       THEN IF downloaded_files[wi] \in {"str name", "path name"}
            THEN WorkerFinish(emitted, <<"file", wi>>) /\ UNCHANGED wi
            ELSE wi' = wi + 1 /\ UNCHANGED <<emitted, wpc>>
       ELSE wi' = 1 /\ wpc' = "any tif" /\ UNCHANGED emitted
    /\ UNCHANGED <<results_n, downloaded_files, worker, nonWorkerVars>>

\* Lines 308 to 313: the loop looking for any ".tif".
DownloadFindTif ==
    /\ worker = "download" /\ wpc = "any tif"
    /\ IF wi <= Len(downloaded_files)
       THEN IF downloaded_files[wi] = "tif"
            THEN WorkerFinish(emitted, <<"file", wi>>) /\ UNCHANGED wi
            ELSE wi' = wi + 1 /\ UNCHANGED <<emitted, wpc>>
       ELSE wi' = 1 /\ wpc' = "fallback" /\ UNCHANGED emitted
    /\ UNCHANGED <<results_n, downloaded_files, worker, nonWorkerVars>>

\* Lines 315 to 321: the first downloaded file as a fallback.
DownloadFallback ==
    /\ worker = "download" /\ wpc = "fallback"
    /\ WorkerFinish(emitted, <<"file", 1>>)
    /\ UNCHANGED <<results_n, downloaded_files, wi, worker, nonWorkerVars>>

NextWorkers ==
    \/ SearchLogin
    \/ SearchData
    \/ SearchNoResults
    \/ SearchFootprints
    \/ SearchRecord
    \/ SearchFrame
    \/ DownloadLogin
    \/ DownloadPrepare
    \/ DownloadFetch
    \/ DownloadFindExact
    \/ DownloadFindTif
    \/ DownloadFallback

SpecWorkers == InitWorkers /\ [][NextWorkers]_vars

\* ==================================================== the link loop
\* Lines 1122 to 1185 for one granule: what ScanGranule sums up as one
\* result ("notfound": the loop ends with no link opened).
MaxLinks == 3

\* A link by its lower-cased text: it contains "_<band>.tif"; it only ends
\* with "<band>.tif"; it does neither.
LinkKinds == {"has _band.tif", "ends band.tif", "other"}

\* The test of lines 1126 to 1129.
LinkMatches(l) == l \in {"has _band.tif", "ends band.tif"}

LinkLists == UNION {[1..n -> LinkKinds] : n \in 0..MaxLinks}

\* What opening a matching link can give (ScanResults without "notfound").
OpenResults == {"opennone", "openraise", "metaraise", "ok"}

InitLinks ==
    /\ data_links \in LinkLists
    /\ lpc = "loop" /\ link_i = 1
    /\ opens = <<>> /\ link_paths = <<>> /\ found = FALSE
    /\ listCount = 1 /\ selected = {1} /\ nResults = 1
    /\ gdf = TRUE /\ listEnabled = TRUE /\ combo = "file"
    /\ singleBtn = FALSE /\ footBtn = FALSE /\ mosaicBtn = FALSE
    /\ searchBtn = TRUE /\ searching = 0
    /\ progress = TRUE /\ cursor = 1
    /\ status = "Creating mosaic" /\ output = "text"
    /\ downloads = 0
    /\ SessionIdle
    /\ stack = <<"scan">>
    /\ pc = "scan" /\ itemsAlive = TRUE
    /\ items = <<1>> /\ idx = 1 /\ files_by_crs = <<>>
    /\ not_found = <<>> /\ access_failed = <<>> /\ scanLog = <<>>
    /\ ds = 0
    /\ setupOk = "ok"
    /\ gi = 1 /\ layers_created = <<>> /\ combined_extent = NoExtent
    /\ buildLog = <<>>
    /\ vrtFiles = <<>> /\ vrtBefore = <<>>
    /\ canvasSets = 0 /\ canvasExtent = NoExtent
    /\ outcome = "running" /\ err = "none"
    /\ BandIdle /\ WorkerIdle

\* A variant of the loop with no "break": it goes on to the next link.
NoBreak(i, n) == i + 1

\* "break" at line 1185: the loop is left, whatever the open gave.
BreakLoop(i, n) == n + 1

\* One pass of "for link in data_links": a link that does not match is
\* passed over; a link that matches is opened, its path put in a group when
\* the open and the CRS read succeed, and the loop is left.
LinkStep ==
    /\ lpc = "loop" /\ link_i <= Len(data_links)
    /\ IF LinkMatches(data_links[link_i])
       THEN \E r \in OpenResults :
               /\ opens' = Append(opens, link_i)
               /\ link_paths' = IF r = "ok" THEN Append(link_paths, link_i)
                                ELSE link_paths
               /\ found' = (found \/ r = "ok")
               /\ link_i' = BreakLoop(link_i, Len(data_links))
       ELSE /\ link_i' = link_i + 1
            /\ UNCHANGED <<opens, link_paths, found>>
    /\ UNCHANGED <<data_links, lpc>>
    /\ UNCHANGED <<nResults, widgetVars, mosaicVars, bandVars, workerVars,
                   sessionVars>>

\* The loop is over: line 1187 is reached.
LinkEnd ==
    /\ lpc = "loop" /\ link_i > Len(data_links)
    /\ lpc' = "done"
    /\ UNCHANGED <<data_links, link_i, opens, link_paths, found>>
    /\ UNCHANGED <<nResults, widgetVars, mosaicVars, bandVars, workerVars,
                   sessionVars>>

NextLinks == LinkStep \/ LinkEnd

SpecLinks == InitLinks /\ [][NextLinks]_vars

\* ============================================================= the .netrc
\* _save_to_netrc of the settings dock.  ~/.netrc is a sequence of lines,
\* each ending in a newline and known by how it starts: the earthdata
\* machine line (with the credentials being saved, or with others), another
\* machine line, a default line, any other non-blank line (the login and
\* password lines of a multi-line entry), or a blank line.
LineKinds == {"urs_new", "urs_old", "machine", "default", "cont", "blank"}

\* line.strip().startswith("machine urs.earthdata.nasa.gov")
StartsWithEarthdata(l) == l \in {"urs_new", "urs_old"}

\* line.strip().startswith("machine")
StartsWithMachine(l) == l \in {"urs_new", "urs_old", "machine"}

\* not line.strip()
IsBlank(l) == l = "blank"

\* The loop of lines 495-506, from the line at the head of "lines" on, with
\* the flag skip_machine as the loop left it.
RECURSIVE RemoveEarthdata(_, _)
RemoveEarthdata(lines, skip_machine) ==
    IF lines = <<>> THEN <<>>
    ELSE LET l == Head(lines) IN
         IF StartsWithEarthdata(l)
         THEN RemoveEarthdata(Tail(lines), TRUE)
         ELSE IF skip_machine /\ ~IsBlank(l) /\ ~StartsWithMachine(l)
         THEN RemoveEarthdata(Tail(lines), TRUE)
         ELSE <<l>> \o RemoveEarthdata(Tail(lines), FALSE)

\* "\nmachine urs.earthdata.nasa.gov login {username} password {password}\n"
\* as the lines it makes in the file.
NewEntry == <<"blank", "urs_new">>

\* The content _save_to_netrc writes over a file holding "lines".
SaveToNetrc(lines) == RemoveEarthdata(lines, FALSE) \o NewEntry

\* The files ~/.netrc may hold; <<>> also stands for no file.
NetrcFiles == UNION {[1..n -> LineKinds] : n \in 0..MaxLines}

InitNetrc ==
    /\ nResults = 0 /\ gdf = FALSE
    /\ listCount = 0 /\ listEnabled = FALSE /\ selected = {}
    /\ combo = "empty"
    /\ singleBtn = FALSE /\ footBtn = FALSE /\ mosaicBtn = FALSE
    /\ searchBtn = TRUE /\ progress = FALSE /\ cursor = 0
    /\ searching = 0
    /\ status = "Ready to search" /\ output = "empty"
    /\ downloads = 0
    /\ stack = <<>>
    /\ MosaicIdle /\ BandIdle /\ WorkerIdle /\ LinkIdle
    /\ SearchIdle /\ FootprintIdle
    /\ netrc \in NetrcFiles
    /\ netrcBefore = netrc
    /\ netrcOnce = <<>>
    /\ saves = 0

\* _save_settings: with a username and a password it calls _save_to_netrc,
\* whose file operations succeed or raise (the except block warns and the
\* file is as it was).
SaveSettings ==
    /\ saves < MaxSaves
    /\ \E filled \in BOOLEAN, io \in {"ok", "raise"} :
          IF filled /\ io = "ok"
          THEN /\ netrc' = SaveToNetrc(netrc)
               /\ saves' = saves + 1
               /\ netrcOnce' = IF saves = 0 THEN SaveToNetrc(netrc)
                               ELSE netrcOnce
               /\ UNCHANGED netrcBefore
          ELSE UNCHANGED netrcVars
    /\ UNCHANGED <<nResults, widgetVars, mosaicVars, bandVars, workerVars,
                   linkVars, searchVars, footprintVars>>

NextNetrc == SaveSettings

SpecNetrc == InitNetrc /\ [][NextNetrc]_vars

\* ================================================================= claims
\* ----- shared vocabulary of the claims about the scan and the build loop
\* The scan loop has visited every selected item.
ScanComplete == idx = Len(items) + 1

\* The files the scan opened successfully: gdal.Open returned a dataset and
\* its CRS was read (lines 1135 to 1160 ran through).
OpenedFiles ==
    {Path(scanLog[k].item, scanLog[k].crs) :
        k \in {j \in 1..Len(scanLog) : scanLog[j].res = "ok"}}

GroupPaths(k) == SeqRange(files_by_crs[k].paths)

GroupIndices == 1..Len(files_by_crs)

\* C1: after the granule scan, every successfully opened file is in exactly
\* one CRS group's path list, no path is in two groups, all paths of a group
\* have the group's key, and the groups' path lists together are exactly the
\* successfully opened files.
C1_GroupingIsPartition ==
    ScanComplete =>
        /\ \A p \in OpenedFiles :
              Cardinality({k \in GroupIndices : p \in GroupPaths(k)}) = 1
        /\ \A k, l \in GroupIndices :
              k # l => GroupPaths(k) \cap GroupPaths(l) = {}
        /\ \A k \in GroupIndices :
              \A p \in GroupPaths(k) : CrsKey(p.crs) = files_by_crs[k].key
        /\ UNION {GroupPaths(k) : k \in GroupIndices} = OpenedFiles

\* C1 witness: a finished scan that opened two files, both with the same key.
C1_Witness ==
    /\ ScanComplete
    /\ Len(files_by_crs) = 1
    /\ Len(files_by_crs[1].paths) = 2
    /\ Cardinality(OpenedFiles) = 2

\* No selected granule gave a grouped file.
NothingGrouped == \A k \in 1..Len(scanLog) : scanLog[k].res # "ok"

NoAccessibleMsg == "No accessible files found for selected granules"

\* C2: once the scan is over and its result judged (line 1207): if no file
\* was grouped the operation has ended in the "No accessible files" error
\* with no VRT built and no layer registered; if a file was grouped it went
\* on to the per-group stage.
C2_NoAccessibleFilesIsFatal ==
    (ScanComplete /\ pc # "scan") =>
        IF NothingGrouped
        THEN /\ pc = "done" /\ outcome = "failed" /\ err = NoAccessibleMsg
             /\ buildLog = <<>> /\ vrtFiles = vrtBefore /\ layers_created = <<>>
        ELSE /\ err # NoAccessibleMsg
             /\ pc = "build" \/ buildLog # <<>>

\* C2 witness: two granules scanned, one not found and one that failed to
\* open, and the operation over with the fatal error.
C2_Witness ==
    /\ pc = "done" /\ err = NoAccessibleMsg
    /\ Len(scanLog) = 2
    /\ \E k \in 1..2 : scanLog[k].res = "notfound"
    /\ \E k \in 1..2 : scanLog[k].res \in {"opennone", "openraise"}

VrtFailures == {"vrtnone", "vrtraise"}

\* C3 (as claimed): when the VRT of a group cannot be built, by gdal.BuildVRT
\* returning None or by its raising, the operation is not aborted and, once
\* it is over, every later group has been through the build loop.
C3_VrtFailureSkipsGroup ==
    \A k \in 1..Len(buildLog) :
        buildLog[k].res \in VrtFailures =>
            /\ err # "vrtraise"
            /\ (pc = "done" /\ k < Len(files_by_crs)) => Len(buildLog) > k

\* C4 (as claimed): an operation that grouped at least one file ends in
\* failure exactly when no group produced a valid layer.
C4_FailsIffNoLayer ==
    (pc = "done" /\ ~NoAccessibleFiles(files_by_crs)) =>
        (outcome = "failed" <=> layers_created = <<>>)

\* C5 (as claimed): while a mosaic operation is in progress the Display
\* Mosaic button is disabled, and at most one invocation is active.
C5_OneMosaicAtATime ==
    /\ stack # <<>> => ~mosaicBtn
    /\ Len(stack) <= 1

\* C6: when credential setup fails the operation is over at once with the
\* setup error, no file opened, no group, no VRT and no layer; and no file
\* is ever visited by the scan unless setup has succeeded.
C6_SetupBeforeAnyOpen ==
    /\ setupOk = "failed" =>
          /\ pc = "done" /\ outcome = "failed"
          /\ err = "Failed to setup cloud access"
          /\ scanLog = <<>> /\ files_by_crs = <<>>
          /\ buildLog = <<>> /\ vrtFiles = vrtBefore /\ layers_created = <<>>
    /\ scanLog # <<>> => setupOk = "ok"
    /\ pc \in {"scan", "build"} => setupOk = "ok"

\* C6 witness: an operation ended by the failure of credential setup.
C6_Witness == setupOk = "failed" /\ pc = "done" /\ outcome = "failed"

\* C7: every step in which an invocation of _display_mosaic ends, by success
\* or by any exception, leaves the progress bar hidden, one override cursor
\* fewer, and the three display buttons set from the selection and the
\* footprint data.
C7_UiRestoredOnEveryExit ==
    [][Len(stack') < Len(stack) =>
          /\ progress' = FALSE
          /\ cursor' = cursor - 1
          /\ singleBtn' = (Cardinality(selected') = 1)
          /\ mosaicBtn' = (Cardinality(selected') >= 1)
          /\ footBtn' = gdf']_vars

\* C7 witness: the only invocation has ended in failure with two granules
\* selected and footprints at hand.
C7_Witness ==
    /\ status = "Mosaic failed" /\ stack = <<>>
    /\ cursor = 0 /\ ~progress
    /\ Cardinality(selected) = 2
    /\ mosaicBtn /\ ~singleBtn /\ footBtn

\* The bounding union of the extents of the layers registered so far.
RECURSIVE UnionOfExtents(_)
UnionOfExtents(ls) ==
    IF ls = <<>> THEN NoExtent
    ELSE IF Len(ls) = 1 THEN ls[1].extent
    ELSE CombineExtentWith(UnionOfExtents(SubSeq(ls, 1, Len(ls) - 1)),
                           Last(ls).extent)

ValidBuilds == {k \in 1..Len(buildLog) : buildLog[k].res = "valid"}

\* C8 (as claimed): during the build loop the combined extent is the union of
\* the extents of the layers registered so far, and an operation in which
\* all groups but one gave a layer succeeds, with those layers and the union
\* of their extents.
C8_CombinedExtentOfCreatedLayers ==
    /\ pc = "build" => combined_extent = UnionOfExtents(layers_created)
    /\ ( /\ pc = "done"
         /\ Len(buildLog) = Len(files_by_crs)
         /\ Len(files_by_crs) >= 2
         /\ Cardinality(ValidBuilds) = Len(files_by_crs) - 1 )
       => /\ outcome = "success"
          /\ Len(layers_created) = Len(files_by_crs) - 1
          /\ combined_extent = UnionOfExtents(layers_created)

\* ----- the band matcher
BandDone == layer_band # <<"unset">>

WordChars == Alnum \cup {"_"}

\* The pattern of the claim, _B\d+_\w+\.tif$ without regard to case, matches
\* s starting at i.
WordPatternAt(s, i) ==
    /\ EndsDotTifIgnoreCase(s)
    /\ i >= 1 /\ i + 1 <= Len(s)
    /\ s[i] = "_"
    /\ Lower(s[i + 1]) = "b"
    /\ \E j \in (i + 2)..(Len(s) - 6) :
          /\ \A d \in (i + 2)..j : s[d] \in Digits
          /\ s[j + 1] = "_"
          /\ \A w \in (j + 2)..(Len(s) - 4) : s[w] \in WordChars

\* C9 (as claimed): for every filename matching _B\d+_\w+\.tif$ the band
\* matcher returns the B<digits>_<word> part before ".tif" (of the leftmost
\* match).
C9_WordPatternGivesCapture ==
    BandDone =>
        \A i \in 1..Len(filename) :
            ( /\ WordPatternAt(filename, i)
              /\ \A m \in 1..(i - 1) : ~WordPatternAt(filename, m) )
            => layer_band = SubSeq(filename, i + 1, Len(filename) - 4)

\* The position of the last underscore of s (0: none).
LastUnderscore(s) ==
    IF \E k \in 1..Len(s) : s[k] = "_"
    THEN CHOOSE k \in 1..Len(s) :
             s[k] = "_" /\ \A m \in (k + 1)..Len(s) : s[m] # "_"
    ELSE 0

\* s, read from its end: ".tif" in any case, before it a non-empty word of
\* letters and digits, before that the last underscore u of s, before that a
\* non-empty run of digits starting at b + 1, a B or b at b, an underscore
\* at b - 1.
AlnumBandAt(s, b) ==
    LET u == LastUnderscore(s)
    IN  /\ EndsDotTifIgnoreCase(s)
        /\ u >= 4 /\ u + 1 <= Len(s) - 4
        /\ \A w \in (u + 1)..(Len(s) - 4) : s[w] \in Alnum
        /\ b >= 2 /\ b + 1 <= u - 1
        /\ \A d \in (b + 1)..(u - 1) : s[d] \in Digits
        /\ Lower(s[b]) = "b"
        /\ s[b - 1] = "_"

\* C9 (amended): for every filename that ends, in any case, in
\* _B<digits>_<word>.tif with the word made of letters and digits only, the
\* band matcher returns exactly that B<digits>_<word>.
C9_AlnumPatternGivesCapture ==
    BandDone =>
        \A b \in 1..Len(filename) :
            AlnumBandAt(filename, b) =>
                layer_band = SubSeq(filename, b, Len(filename) - 4)

\* C9 witness: W_B1_W.tif has given B1_W.
C9_Witness ==
    /\ filename = <<"W", "_", "B", "1", "_", "W", ".", "t", "i", "f">>
    /\ layer_band = <<"B", "1", "_", "W">>

\* s without its ".tif" suffix, when it has one.
StripDotTifSuffix(s) ==
    IF Len(s) >= 4 /\ SubSeq(s, Len(s) - 3, Len(s)) = DotTif
    THEN SubSeq(s, 1, Len(s) - 4)
    ELSE s

\* C10 (as claimed): for a filename the band pattern does not match, the
\* band matcher strips the ".tif" suffix and nothing else, splits the rest
\* on "_" and returns the last two segments joined by "_", or the only
\* segment when there is one.
C10_FallbackStripsSuffixOnly ==
    (BandDone /\ ~BandMatches(filename)) =>
        LET parts == SplitUnderscore(StripDotTifSuffix(filename), <<>>)
        IN  layer_band =
                IF Len(parts) >= 2
                THEN parts[Len(parts) - 1] \o <<"_">> \o parts[Len(parts)]
                ELSE parts[1]

\* C11 (as claimed): the band matcher gives a non-empty token for every text
\* of the layer dropdown that passes the "layer type selected" guard.
C11_TokenNeverEmpty == BandDone => layer_band # <<>>

\* The grouping key of the claim: the authority code when both files have
\* one, else the first 100 characters of the CRS text.
SameGroupingKey(a, b) ==
    IF a.epsg # 0 /\ b.epsg # 0
    THEN a.epsg = b.epsg
    ELSE a.epsg = 0 /\ b.epsg = 0 /\ a.wkt100 = b.wkt100

InOneGroup(p, q) ==
    \E k \in GroupIndices : p \in GroupPaths(k) /\ q \in GroupPaths(k)

ScanLogIndices == 1..Len(scanLog)

\* C13 (as claimed): a scanned granule is in the "not found" list exactly
\* when none of its links matched the band token, and the scan goes on after
\* recording it.
C13_NotFoundIffNoLinkMatches ==
    /\ \A k \in ScanLogIndices :
          (scanLog[k].item \in SeqRange(not_found))
              <=> scanLog[k].res = "notfound"
    /\ pc = "scan" => idx = Len(scanLog) + 1

OpenFailures == {"opennone", "openraise", "metaraise"}

\* How often x occurs in the sequence s.
Occurrences(s, x) == Cardinality({k \in 1..Len(s) : s[k] = x})

\* C14: a file whose open failed (no dataset, an exception, or an exception
\* while its CRS was read) is in the "access failed" list exactly once and
\* in no CRS group; the scan is then at the next granule, and the only thing
\* that ends a scan before its last granule is the deleted-item error of a
\* list cleared under it, never a failure of one item.
C14_OpenFailureIsRecordedAndSkipped ==
    /\ \A k \in ScanLogIndices :
          scanLog[k].res \in OpenFailures =>
              /\ Occurrences(access_failed, Basename(scanLog[k].item)) = 1
              /\ \A g \in GroupIndices, c \in CrsCatalogue :
                    Path(scanLog[k].item, c) \notin GroupPaths(g)
    /\ Len(access_failed) =
          Cardinality({k \in ScanLogIndices : scanLog[k].res \in OpenFailures})
    /\ pc = "scan" => idx = Len(scanLog) + 1
    /\ (pc = "done" /\ setupOk = "ok" /\ ~ScanComplete)
          => err = "wrapped C/C++ object has been deleted"

\* C14 witness: the first granule's open raised, the second granule was
\* then opened and grouped, and the scan is complete.
C14_Witness ==
    /\ ScanComplete
    /\ Len(scanLog) = 2
    /\ scanLog[1].res = "openraise" /\ scanLog[2].res = "ok"
    /\ Len(access_failed) = 1
    /\ TotalFiles(files_by_crs) = 1

\* The groups whose VRT this invocation has written.
WrittenGroups ==
    {k \in 1..Len(buildLog) : buildLog[k].res \notin VrtFailures}

\* The file name the claim gives the VRT of a group: a function of the
\* group's short name alone.
NamedAfterShortName(k) == <<"opera_mosaic", files_by_crs[k].name, ".vrt">>

\* C15: the VRT files in the temp directory are those that were there when
\* the invocation began and, for every group built, the one file named after
\* the group's short name; so an invocation that builds only groups whose
\* files an earlier identical run left there ends with the same set of files,
\* none added.
C15_RebuildAddsNoFile ==
    LET written == {NamedAfterShortName(k) : k \in WrittenGroups}
    IN  /\ DOMAIN vrtFiles = (DOMAIN vrtBefore) \cup written
        /\ written \subseteq DOMAIN vrtBefore
              => DOMAIN vrtFiles = DOMAIN vrtBefore
        /\ \A k \in WrittenGroups :
              vrtFiles[NamedAfterShortName(k)] # EarlierSources

\* C15 witness: a successful invocation over two groups whose two VRT files
\* an earlier run had left, both written again, and still two files.
C15_Witness ==
    /\ pc = "done" /\ outcome = "success"
    /\ Len(files_by_crs) = 2
    /\ Cardinality(WrittenGroups) = 2
    /\ Cardinality(DOMAIN vrtBefore) = 2
    /\ DOMAIN vrtFiles = DOMAIN vrtBefore
    /\ vrtFiles # vrtBefore

RECURSIVE SumScenes(_)
SumScenes(ls) == IF ls = <<>> THEN 0 ELSE ls[1].scenes + SumScenes(Tail(ls))

AllGroupsValid ==
    /\ files_by_crs # <<>>
    /\ Len(buildLog) = Len(files_by_crs)
    /\ \A k \in 1..Len(buildLog) : buildLog[k].res = "valid"

\* C16: when the build and the load of every group succeeded, there is one
\* layer for each CRS group, named with the group's short name and with a
\* scene count equal to the length of the group's path list, and the scene
\* counts add up to the number of files grouped.
C16_OneLayerPerGroupWithSceneCount ==
    (pc = "done" /\ AllGroupsValid) =>
        /\ outcome = "success"
        /\ Len(layers_created) = Len(files_by_crs)
        /\ \A k \in GroupIndices :
              /\ layers_created[k].key = files_by_crs[k].key
              /\ layers_created[k].name = files_by_crs[k].name
              /\ layers_created[k].scenes = Len(files_by_crs[k].paths)
        /\ \A k, l \in GroupIndices :
              k # l => layers_created[k].key # layers_created[l].key
        /\ SumScenes(layers_created) = Cardinality(OpenedFiles)

\* C16 witness: a successful invocation whose one group holds two files.
C16_Witness ==
    /\ pc = "done" /\ outcome = "success" /\ AllGroupsValid
    /\ Len(layers_created) = 1
    /\ layers_created[1].scenes = 2
    /\ layers_created[1].name = <<"UTM zone", "13N">>

\* C17: a successful invocation has set the canvas extent exactly once, with
\* every group processed and every layer registered, to the combined extent
\* of its layers with the 5% margin; an invocation that is running or has
\* failed has not set it.
C17_CanvasSetOnceOnSuccess ==
    /\ outcome = "success" =>
          /\ canvasSets = 1
          /\ pc = "done"
          /\ Len(buildLog) = Len(files_by_crs)
          /\ Len(layers_created) = Cardinality(ValidBuilds)
          /\ canvasExtent = Scale105(UnionOfExtents(layers_created))
    /\ outcome # "success" => canvasSets = 0 /\ canvasExtent = NoExtent

\* C17 witness: success over two groups of which the second gave no layer.
C17_Witness ==
    /\ outcome = "success" /\ canvasSets = 1
    /\ Len(buildLog) = 2
    /\ buildLog[1].res = "valid" /\ buildLog[2].res = "invalid"

Terminals == {k \in 1..Len(emitted) : emitted[k].sig \in {"finished", "error"}}

\* C18: a run() of either worker never has more than one of finished and
\* error among its signals, nothing follows that signal, and a run() that
\* has returned has emitted exactly one of them, as its last signal.
C18_OneTerminalSignal ==
    /\ Cardinality(Terminals) <= 1
    /\ \A k \in Terminals : k = Len(emitted)
    /\ wpc = "done" => Cardinality(Terminals) = 1
    /\ Terminals # {} => wpc \in {"done", "idle"}

\* C18 witness: a search that could not build its footprints has returned
\* after three progress signals, a warning and finished.
C18_Witness ==
    /\ worker = "search" /\ wpc = "done"
    /\ Len(emitted) = 5
    /\ emitted[4] = Signal("progress", "Warning")
    /\ emitted[5].sig = "finished"

\* Where the scan opened the file p.
LogPos(p) ==
    CHOOSE k \in ScanLogIndices :
        scanLog[k].res = "ok" /\ Path(scanLog[k].item, scanLog[k].crs) = p

\* The group a layer was made for.
GroupOfLayer(l) == CHOOSE k \in GroupIndices : files_by_crs[k].key = l.key

\* C19: the scan visits the selected items in the order selectedItems() gave
\* them; within each group the paths are in the order the scan opened them;
\* the groups are in the order in which their first files were opened; the
\* build loop takes the groups in that order and registers the layers in it.
C19_DiscoveryOrderIsKept ==
    /\ \A k \in ScanLogIndices : scanLog[k].item = items[k]
    /\ \A g \in GroupIndices :
          \A a, b \in 1..Len(files_by_crs[g].paths) :
              a < b => LogPos(files_by_crs[g].paths[a])
                           < LogPos(files_by_crs[g].paths[b])
    /\ \A g, h \in GroupIndices :
          g < h => LogPos(files_by_crs[g].paths[1])
                       < LogPos(files_by_crs[h].paths[1])
    /\ \A k \in 1..Len(buildLog) : buildLog[k].key = files_by_crs[k].key
    /\ \A a, b \in 1..Len(layers_created) :
          a < b => GroupOfLayer(layers_created[a])
                       < GroupOfLayer(layers_created[b])

\* C19 witness: item 2 was selected before item 1, their files are in
\* different CRSs, and both layers were registered, item 2's first.
C19_Witness ==
    /\ pc = "done" /\ outcome = "success"
    /\ items = <<2, 1>>
    /\ Len(files_by_crs) = 2 /\ Len(layers_created) = 2
    /\ files_by_crs[1].paths[1].id = 2
    /\ layers_created[1].key = files_by_crs[1].key
    /\ layers_created[2].key = files_by_crs[2].key

MatchingLinks == {j \in 1..Len(data_links) : LinkMatches(data_links[j])}

\* C20: for one granule gdal.Open is called on at most one link, and that
\* link is the first in link order that matches the band token; when its
\* open fails no later matching link is opened; at most one path of the
\* granule goes into the groups, and it is the path of the link opened.
C20_OnlyFirstMatchingLinkIsOpened ==
    /\ Len(opens) <= 1
    /\ \A k \in 1..Len(opens) :
          /\ opens[k] \in MatchingLinks
          /\ \A j \in MatchingLinks : opens[k] <= j
    /\ Len(link_paths) <= 1
    /\ SeqRange(link_paths) \subseteq SeqRange(opens)
    /\ lpc = "done" => (opens = <<>> <=> MatchingLinks = {})

\* C20 witness: of three links the second and the third match; the second
\* was opened and its open failed; the loop is over with nothing grouped.
C20_Witness ==
    /\ lpc = "done"
    /\ Len(data_links) = 3
    /\ MatchingLinks = {2, 3}
    /\ opens = <<2>> /\ link_paths = <<>> /\ ~found

\* C21 (as claimed): whenever the scan calls gdal.Open for a granule, the
\* dataset of no earlier file is still open.
C21_NoHandleHeldAtNextOpen ==
    \A k \in ScanLogIndices :
        scanLog[k].res \in OpenResults => scanLog[k].held = 0

\* The granules the scan visited with a valid result index.
ValidVisits == {k \in ScanLogIndices : scanLog[k].res # "skipped"}

\* C22 (as claimed): when the scan is over, the files grouped, the granules
\* not found and the files that failed to open add up to the granules with
\* a valid index, and no granule is both "access failed" and "not found".
C22_ThreeOutcomesAddUp ==
    ScanComplete =>
        /\ TotalFiles(files_by_crs) + Len(not_found) + Len(access_failed)
              = Cardinality(ValidVisits)
        /\ \A k \in ScanLogIndices :
              scanLog[k].res \in OpenFailures
                  => scanLog[k].item \notin SeqRange(not_found)

\* C23 (as claimed): when the invocation is over, the VRT file of every
\* registered layer holds exactly the paths of the layer's own CRS group,
\* and no two groups that were built wrote the same VRT path.
C23_EachLayerHasItsOwnVrt ==
    pc = "done" =>
        /\ \A k \in 1..Len(layers_created) :
              LET l == layers_created[k]
              IN  /\ l.vrt \in DOMAIN vrtFiles
                  /\ vrtFiles[l.vrt] = files_by_crs[GroupOfLayer(l)].paths
        /\ \A g, h \in WrittenGroups :
              g # h => VrtPath(files_by_crs[g].name)
                           # VrtPath(files_by_crs[h].name)

\* C24 (as claimed): an invocation that has ended in the failed state has
\* registered no mosaic layer.
C24_FailedInvocationRegistersNothing ==
    outcome = "failed" => layers_created = <<>>

\* C25: once every Display Single and Display Mosaic invocation has returned
\* and every download worker's finished or error signal has been handled,
\* the override-cursor pushes and pops are balanced: no wait cursor remains.
C25_CursorBalancedWhenIdle ==
    (stack = <<>> /\ downloads = 0) => cursor = 0

\* C26: at most one DownloadRasterWorker runs at a time, and while one runs
\* the Display Single button is disabled, whatever the user does to the
\* granule selection meanwhile.
C26_OneDownloadAtATime ==
    /\ downloads <= 1
    /\ downloads > 0 => ~singleBtn

\* C27: after any sequence of searches and resets the granule list agrees
\* with the stored results: as many items as results, and every item that
\* can be selected stores an index inside the results.
C27_ListAgreesWithResults ==
    /\ listCount = nResults
    /\ \A i \in selected : i <= nResults

\* The number of values of the bbox of each SearchWorker _search may make.
ValidWorkerBbox == {<<>>, <<0>>, <<4>>}

\* C28: a _search that warns about the bounding box leaves the button, the
\* progress bar, the status, the output text, the stored results and the
\* worker as they were; a SearchWorker is started only with no bounding box
\* or with four numbers, only when none is running, and the search button is
\* disabled for as long as it runs.
C28_SearchGate ==
    [][/\ warnings' # warnings =>
             /\ SearchBbox(bbox) = Rejected
             /\ UNCHANGED <<searchBtn, progress, status, output, nResults,
                            gdf, listCount, selected, searching, search_bbox>>
       /\ searching' > searching =>
             /\ SearchBbox(bbox) \in {0, 4}
             /\ search_bbox' = <<SearchBbox(bbox)>>
             /\ searching = 0
       /\ search_bbox' \in ValidWorkerBbox
       /\ searching' <= 1
       /\ searching' > 0 => ~searchBtn']_vars

\* A rejected search was followed by one with four numbers, whose worker is
\* running.
C28_Witness ==
    /\ warnings = 1
    /\ search_bbox = <<4>>
    /\ searching = 1
    /\ ~searchBtn

\* C29: the project never holds more than one footprint layer of this
\* widget; a call that adds a layer has removed the previous one, and
\* self._footprint_layer is the layer it added, the only one registered.
C29_OneFootprintLayer ==
    [][/\ Cardinality(project') <= 1
       /\ nLayers' # nLayers =>
             /\ footprint_layer' = nLayers'
             /\ project' = {footprint_layer'}
             /\ footprint_layer \notin project']_vars

\* A second footprint layer replaced the first, which was still registered.
C29_Witness ==
    /\ nLayers = 2
    /\ footprint_layer = 2
    /\ project = {2}
    /\ status = "Displayed footprints"

\* The entry a line belongs to: the kind of the last line at or before it
\* that starts an entry, "none" before the first.
RECURSIVE OwnerAt(_, _)
OwnerAt(lines, i) ==
    IF i = 0 THEN "none"
    ELSE IF lines[i] \in {"urs_new", "urs_old", "machine", "default"}
    THEN lines[i]
    ELSE OwnerAt(lines, i - 1)

\* The lines of the entries of other machines and of the default entry, in
\* their order.
RECURSIVE OtherLinesUpTo(_, _)
OtherLinesUpTo(lines, n) ==
    IF n = 0 THEN <<>>
    ELSE IF lines[n] # "blank" /\ OwnerAt(lines, n) \in {"machine", "default"}
    THEN Append(OtherLinesUpTo(lines, n - 1), lines[n])
    ELSE OtherLinesUpTo(lines, n - 1)

OtherLines(lines) == OtherLinesUpTo(lines, Len(lines))

EarthdataLines(lines) ==
    {i \in 1..Len(lines) : StartsWithEarthdata(lines[i])}

\* C30: after a successful save ~/.netrc holds exactly one earthdata entry,
\* the new one; the lines of every other machine entry and of a default
\* entry are kept in their order; a second save of the same credentials
\* leaves the file as the first save made it.
C30_SaveKeepsOtherEntries ==
    saves >= 1 =>
        /\ Cardinality(EarthdataLines(netrc)) = 1
        /\ Last(netrc) = "urs_new"
        /\ OtherLines(netrc) = OtherLines(netrcBefore)
        /\ saves >= 2 => netrc = netrcOnce

====
